---- MODULE Spec2Model ----
(***************************************************************************)
(* Model of main.py: the two converters convert_nested_to_unified and      *)
(* convert_flattened_to_unified, run as test_conversions runs them, over a *)
(* heap of Python objects (dicts and lists have identity, scalars do not). *)
(*                                                                         *)
(* A Python str is a sequence of one-character strings.  A value held in a *)
(* variable or in a container is a tagged record: a scalar                 *)
(*   [t |-> "null"], [t |-> "bool", v |-> b], [t |-> "int", v |-> n],      *)
(*   [t |-> "str", v |-> chars]                                            *)
(* or a reference [t |-> "ref", v |-> a] to the object heap[a], which is   *)
(*   [t |-> "dict", v |-> function from keys to values] or                 *)
(*   [t |-> "list", v |-> sequence of values].                             *)
(* A dict is a function, so the insertion order of its keys is not kept:   *)
(* Python's == on dicts ignores it as well.                                *)
(***************************************************************************)
EXTENDS Integers, Sequences, FiniteSets, TLC

VARIABLES
    heap,                    \* the objects allocated so far, by address
    nested_data,             \* test_conversions: the loaded data-1.json, or NotLoaded
    flattened_data,          \* test_conversions: the loaded data-2.json, or NotLoaded
    unified_from_nested,     \* outcome of convert_nested_to_unified(nested_data)
    unified_from_flattened,  \* outcome of convert_flattened_to_unified(flattened_data)
    unified_again,           \* outcome of convert_nested_to_unified on the first result
    touched,                 \* the names of the variables a caller mutated through
    nmut                     \* number of caller mutations so far

vars == <<heap, nested_data, flattened_data, unified_from_nested,
          unified_from_flattened, unified_again, touched, nmut>>

-----------------------------------------------------------------------------
(* Bounds of the model *)

MaxItems == 2       \* longest items sequence of a generated flattened input
MaxPairItems == 2   \* longest items sequence of a generated nested/flattened pair
MaxMutations == 1   \* caller mutations per behaviour

-----------------------------------------------------------------------------
(* Python values *)

Null == [t |-> "null"]
Bool(b) == [t |-> "bool", v |-> b]
Num(n) == [t |-> "int", v |-> n]
Str(s) == [t |-> "str", v |-> s]
Ref(a) == [t |-> "ref", v |-> a]
Dict(f) == [t |-> "dict", v |-> f]
List(s) == [t |-> "list", v |-> s]
EmptyDict == [k \in {} |-> Null]

\* A variable that holds no record: the file was not loaded, or no call returned.
NotLoaded == [t |-> "absent"]
NoCall == [status |-> "none"]

IsRef(x) == x.t = "ref"

-----------------------------------------------------------------------------
(* Python str operations *)

Digits == {"0", "1", "2", "3", "4", "5", "6", "7", "8", "9"}
DigitVal == "0" :> 0 @@ "1" :> 1 @@ "2" :> 2 @@ "3" :> 3 @@ "4" :> 4
            @@ "5" :> 5 @@ "6" :> 6 @@ "7" :> 7 @@ "8" :> 8 @@ "9" :> 9
DigitChr == <<"0", "1", "2", "3", "4", "5", "6", "7", "8", "9">>
Whitespace == {" ", "\t", "\n"}

UpperChars == <<"A","B","C","D","E","F","G","H","I","J","K","L","M",
                "N","O","P","Q","R","S","T","U","V","W","X","Y","Z">>
LowerChars == <<"a","b","c","d","e","f","g","h","i","j","k","l","m",
                "n","o","p","q","r","s","t","u","v","w","x","y","z">>

LowerChar(c) ==
    IF \E i \in DOMAIN UpperChars : UpperChars[i] = c
    THEN LowerChars[CHOOSE i \in DOMAIN UpperChars : UpperChars[i] = c]
    ELSE c

\* str.lower()
Lower(s) == [i \in DOMAIN s |-> LowerChar(s[i])]

\* str.split(sep): the pieces between the separators, never an empty list
RECURSIVE SplitFrom(_, _, _)
SplitFrom(s, sep, cur) ==
    IF s = <<>> THEN <<cur>>
    ELSE IF Head(s) = sep
         THEN <<cur>> \o SplitFrom(Tail(s), sep, <<>>)
         ELSE SplitFrom(Tail(s), sep, Append(cur, Head(s)))

Split(s, sep) == SplitFrom(s, sep, <<>>)

\* str.strip()
RECURSIVE LStrip(_)
LStrip(s) ==
    IF s # <<>> /\ Head(s) \in Whitespace THEN LStrip(Tail(s)) ELSE s

RECURSIVE RStrip(_)
RStrip(s) ==
    IF s # <<>> /\ s[Len(s)] \in Whitespace
    THEN RStrip(SubSeq(s, 1, Len(s) - 1)) ELSE s

Strip(s) == RStrip(LStrip(s))

\* The digit part of an int literal: digits, single underscores between them only
IsDigitString(d) ==
    /\ d # <<>>
    /\ \A i \in DOMAIN d : d[i] \in Digits \cup {"_"}
    /\ d[1] # "_" /\ d[Len(d)] # "_"
    /\ \A i \in 1..(Len(d) - 1) : ~(d[i] = "_" /\ d[i + 1] = "_")

RECURSIVE DigitsValue(_, _)
DigitsValue(d, acc) ==
    IF d = <<>> THEN acc
    ELSE IF Head(d) = "_" THEN DigitsValue(Tail(d), acc)
         ELSE DigitsValue(Tail(d), 10 * acc + DigitVal[Head(d)])

Unsigned(s) == IF s # <<>> /\ Head(s) \in {"+", "-"} THEN Tail(s) ELSE s

\* int(s) returns a value (otherwise it raises ValueError)
IsPyInt(s) == IsDigitString(Unsigned(Strip(s)))

\* int(s), for IsPyInt(s)
PyInt(s) ==
    LET b == Strip(s)
        m == DigitsValue(Unsigned(b), 0)
    IN IF Head(b) = "-" THEN 0 - m ELSE m

\* str(n) of an int
RECURSIVE NatToStr(_)
NatToStr(n) ==
    IF n < 10 THEN <<DigitChr[n + 1]>>
    ELSE Append(NatToStr(n \div 10), DigitChr[(n % 10) + 1])

IntToStr(n) == IF n < 0 THEN <<"-">> \o NatToStr(0 - n) ELSE NatToStr(n)

-----------------------------------------------------------------------------
(* The heap, and the value an object graph denotes *)

EmptyHeap == <<>>

\* A new object: its address is the next free one
Alloc(h, obj) == Append(h, obj)
NewAddr(h) == Len(h) + 1

Children(obj) ==
    IF obj.t = "dict" THEN {obj.v[k] : k \in DOMAIN obj.v}
    ELSE {obj.v[i] : i \in DOMAIN obj.v}

\* The addresses of the containers reachable from x
RECURSIVE Reach(_, _)
Reach(h, x) ==
    IF IsRef(x)
    THEN {x.v} \cup UNION {Reach(h, c) : c \in Children(h[x.v])}
    ELSE {}

\* The structure reachable from x, without identities: what == compares and
\* what json.dumps writes
RECURSIVE Val(_, _)
Val(h, x) ==
    IF IsRef(x)
    THEN LET o == h[x.v]
         IN IF o.t = "dict"
            THEN Dict([k \in DOMAIN o.v |-> Val(h, o.v[k])])
            ELSE List([i \in DOMAIN o.v |-> Val(h, o.v[i])])
    ELSE x

IsDictAt(h, x) == IsRef(x) /\ h[x.v].t = "dict"
IsListAt(h, x) == IsRef(x) /\ h[x.v].t = "list"

\* d[k] = v on a dict's items
SetItem(f, k, v) == [x \in DOMAIN f \cup {k} |-> IF x = k THEN v ELSE f[x]]

-----------------------------------------------------------------------------
(* JSON text, as a sequence of tokens *)

Tok(kind) == [k |-> kind]

RECURSIVE KeySeq(_)
KeySeq(S) ==
    IF S = {} THEN <<>>
    ELSE LET x == CHOOSE y \in S : TRUE IN <<x>> \o KeySeq(S \ {x})

RECURSIVE JsonText(_)
RECURSIVE JsonElements(_)
RECURSIVE JsonMembers(_, _)

\* json.dumps of a structure
JsonText(v) ==
    CASE v.t = "null" -> <<Tok("null")>>
      [] v.t = "bool" -> <<Tok(IF v.v THEN "true" ELSE "false")>>
      [] v.t = "int"  -> <<[k |-> "num", s |-> IntToStr(v.v)]>>
      [] v.t = "str"  -> <<[k |-> "str", s |-> v.v]>>
      [] v.t = "list" -> <<Tok("[")>> \o JsonElements(v.v) \o <<Tok("]")>>
      [] v.t = "dict" -> <<Tok("{")>> \o JsonMembers(v.v, KeySeq(DOMAIN v.v))
                         \o <<Tok("}")>>

JsonElements(s) ==
    IF s = <<>> THEN <<>>
    ELSE IF Len(s) = 1 THEN JsonText(s[1])
    ELSE JsonText(s[1]) \o <<Tok(",")>> \o JsonElements(Tail(s))

JsonMembers(f, ks) ==
    IF ks = <<>> THEN <<>>
    ELSE LET m == <<[k |-> "key", s |-> Head(ks)], Tok(":")>> \o JsonText(f[Head(ks)])
         IN IF Len(ks) = 1 THEN m
            ELSE m \o <<Tok(",")>> \o JsonMembers(f, Tail(ks))

Dumps(h, x) == JsonText(Val(h, x))

RECURSIVE ParseValue(_, _)
RECURSIVE ParseElements(_, _, _)
RECURSIVE ParseMembers(_, _, _)

\* The JSON decoder: the value at the head of ts, the tokens after it, and the
\* heap with the new containers in it
ParseValue(ts, h) ==
    LET tok == Head(ts) IN
    CASE tok.k = "null"  -> [val |-> Null, rest |-> Tail(ts), heap |-> h]
      [] tok.k = "true"  -> [val |-> Bool(TRUE), rest |-> Tail(ts), heap |-> h]
      [] tok.k = "false" -> [val |-> Bool(FALSE), rest |-> Tail(ts), heap |-> h]
      [] tok.k = "num"   -> [val |-> Num(PyInt(tok.s)), rest |-> Tail(ts), heap |-> h]
      [] tok.k = "str"   -> [val |-> Str(tok.s), rest |-> Tail(ts), heap |-> h]
      [] tok.k = "["     ->
            IF ts[2].k = "]"
            THEN [val |-> Ref(NewAddr(h)), rest |-> Tail(Tail(ts)),
                  heap |-> Alloc(h, List(<<>>))]
            ELSE LET r == ParseElements(Tail(ts), h, <<>>)
                 IN [val |-> Ref(NewAddr(r.heap)), rest |-> r.rest,
                     heap |-> Alloc(r.heap, List(r.val))]
      [] tok.k = "{"     ->
            IF ts[2].k = "}"
            THEN [val |-> Ref(NewAddr(h)), rest |-> Tail(Tail(ts)),
                  heap |-> Alloc(h, Dict(EmptyDict))]
            ELSE LET r == ParseMembers(Tail(ts), h, EmptyDict)
                 IN [val |-> Ref(NewAddr(r.heap)), rest |-> r.rest,
                     heap |-> Alloc(r.heap, Dict(r.val))]

ParseElements(ts, h, acc) ==
    LET r == ParseValue(ts, h)
        more == Append(acc, r.val)
    IN IF Head(r.rest).k = ","
       THEN ParseElements(Tail(r.rest), r.heap, more)
       ELSE [val |-> more, rest |-> Tail(r.rest), heap |-> r.heap]

ParseMembers(ts, h, acc) ==
    LET key == ts[1].s
        r == ParseValue(Tail(Tail(ts)), h)
        more == SetItem(acc, key, r.val)
    IN IF Head(r.rest).k = ","
       THEN ParseMembers(Tail(r.rest), r.heap, more)
       ELSE [val |-> more, rest |-> Tail(r.rest), heap |-> r.heap]

\* json.loads / json.load of a well-formed text
Loads(text, h) == ParseValue(text, h)

-----------------------------------------------------------------------------
(* convert_nested_to_unified *)

\* unified_data = json.loads(json.dumps(nested_data))
DeepCopy(h, x) == Loads(Dumps(h, x), h)

\* Mutant: the metadata mapping is created when the record has none
MarkUnified_CreatesMetadata(h, u) ==
    LET top == h[u.v].v IN
    IF "metadata" \in DOMAIN top /\ IsDictAt(h, top["metadata"])
    THEN [h EXCEPT ![top["metadata"].v].v = SetItem(@, "format", Str(<<"u","n","i","f","i","e","d">>))]
    ELSE [Alloc(h, Dict([format |-> Str(<<"u","n","i","f","i","e","d">>)]))
            EXCEPT ![u.v].v = SetItem(@, "metadata", Ref(NewAddr(h)))]

\* Mutant: the format found is kept under source_format
MarkUnified_KeepsSource(h, u) ==
    LET top == h[u.v].v IN
    IF "metadata" \in DOMAIN top /\ IsDictAt(h, top["metadata"])
    THEN LET m == top["metadata"].v
             old == IF "format" \in DOMAIN h[m].v THEN h[m].v["format"] ELSE Null
         IN [h EXCEPT ![m].v = SetItem(SetItem(@, "source_format", old), "format", Str(<<"u","n","i","f","i","e","d">>))]
    ELSE h

\* if 'metadata' in unified_data and isinstance(unified_data['metadata'], dict):
\*     unified_data['metadata']['format'] = 'unified'
MarkUnified(h, u) ==
    LET top == h[u.v].v IN
    IF "metadata" \in DOMAIN top /\ IsDictAt(h, top["metadata"])
    THEN LET m == top["metadata"].v
         IN [h EXCEPT ![m].v = SetItem(@, "format", Str(<<"u","n","i","f","i","e","d">>))]
    ELSE h

\* The call's outcome: the returned reference and the heap after the call
convert_nested_to_unified(h, nested) ==
    LET c == DeepCopy(h, nested)
    IN [status |-> "ok", val |-> c.val, heap |-> MarkUnified(c.heap, c.val)]

-----------------------------------------------------------------------------
(* convert_flattened_to_unified *)

\* Mutant: dict.get(key), without the default
Get_NoDefault(fd, key, default) == IF key \in DOMAIN fd THEN fd[key] ELSE Null

\* dict.get(key, default)
Get(fd, key, default) == IF key \in DOMAIN fd THEN fd[key] ELSE default

FlatUser(fd) ==
    [id |-> Get(fd, "user_id", Null),
     name |-> Get(fd, "user_name", Str(<<>>)),
     email |-> Get(fd, "user_email", Str(<<>>))]

\* Mutant: the format of the input is copied when it has one
FlatMetadata_CopiesFormat(fd) ==
    [version |-> Get(fd, "metadata_version", Str(<<>>)),
     format |-> Get(fd, "format", Str(<<"u","n","i","f","i","e","d">>)),
     encoding |-> Get(fd, "metadata_encoding", Str(<<>>))]

FlatMetadata(fd) ==
    [version |-> Get(fd, "metadata_version", Str(<<>>)),
     format |-> Str(<<"u","n","i","f","i","e","d">>),
     encoding |-> Get(fd, "metadata_encoding", Str(<<>>))]

\* Mutant: parts[2] == 'true', without lower()
ItemObj_CaseSensitive(parts) ==
    [id |-> Num(PyInt(parts[1])),
     title |-> Str(parts[2]),
     active |-> Bool(parts[3] = <<"t","r","u","e">>)]

\* Mutant: parts[0] is kept as text, without int()
ItemObj_KeepsIdText(parts) ==
    [id |-> Str(parts[1]),
     title |-> Str(parts[2]),
     active |-> Bool(Lower(parts[3]) = <<"t","r","u","e">>)]

\* item_obj, for parts whose first one int() accepts
ItemObj(parts) ==
    [id |-> Num(PyInt(parts[1])),
     title |-> Str(parts[2]),
     active |-> Bool(Lower(parts[3]) = <<"t","r","u","e">>)]

\* Mutant: len(parts) >= 3
IsItemShape_AtLeast(parts) == Len(parts) >= 3

\* len(parts) == 3
IsItemShape(parts) == Len(parts) = 3

\* Mutant: the ValueError of int() is caught and the item skipped
ItemStep_SwallowsBadId(item_str) ==
    IF item_str.t # "str"
    THEN [status |-> "AttributeError", objs |-> <<>>]
    ELSE LET parts == Split(item_str.v, ":")
         IN IF IsItemShape(parts) /\ IsPyInt(parts[1])
            THEN [status |-> "ok", objs |-> <<ItemObj(parts)>>]
            ELSE [status |-> "ok", objs |-> <<>>]

\* One turn of the loop over the items: the exception it raises, or the item
\* objects it appends
ItemStep(item_str) ==
    IF item_str.t # "str"
    THEN [status |-> "AttributeError", objs |-> <<>>]
    ELSE LET parts == Split(item_str.v, ":")
         IN IF IsItemShape(parts)
            THEN IF IsPyInt(parts[1])
                 THEN [status |-> "ok", objs |-> <<ItemObj(parts)>>]
                 ELSE [status |-> "ValueError", objs |-> <<>>]
            ELSE [status |-> "ok", objs |-> <<>>]

\* unified_data['items'].append(item_obj)
ListAppend(objs, more) == objs \o more

\* The loop over flattened_data['items'], left at the first exception
RECURSIVE ItemLoop(_, _)
ItemLoop(elems, objs) ==
    IF elems = <<>> THEN [status |-> "ok", objs |-> objs]
    ELSE LET r == ItemStep(Head(elems))
         IN IF r.status = "ok"
            THEN ItemLoop(Tail(elems), ListAppend(objs, r.objs))
            ELSE [status |-> r.status, objs |-> <<>>]

\* if 'items' in flattened_data and isinstance(flattened_data['items'], list)
HasItemList(h, fd) == "items" \in DOMAIN fd /\ IsListAt(h, fd["items"])

\* The call's outcome: the returned reference and the heap after the call, or
\* the exception that leaves the call
convert_flattened_to_unified(h, flattened) ==
    LET fd == h[flattened.v].v
        loop == IF HasItemList(h, fd)
                THEN ItemLoop(Val(h, fd["items"]).v, <<>>)
                ELSE [status |-> "ok", objs |-> <<>>]
        a == NewAddr(h)
        unified_data ==
            [message |-> Get(fd, "message", Str(<<>>)),
             timestamp |-> Get(fd, "timestamp", Str(<<>>)),
             user |-> Ref(a + 1),
             metadata |-> Ref(a + 2),
             items |-> Ref(a + 3)]
        n == Len(loop.objs)
    IN IF loop.status = "ok"
       THEN [status |-> "ok", val |-> Ref(a),
             heap |-> h \o <<Dict(unified_data), Dict(FlatUser(fd)),
                             Dict(FlatMetadata(fd)),
                             List([i \in 1..n |-> Ref(a + 3 + i)])>>
                        \o [i \in 1..n |-> Dict(loop.objs[i])]]
       ELSE [status |-> loop.status, val |-> NotLoaded, heap |-> h]

-----------------------------------------------------------------------------
(* The documents the loader reads *)

\* All sequences over S of length at most n
SeqsUpTo(S, n) == UNION {[1..m -> S] : m \in 0..n}

\* Elements of a flattened document's items: well-formed item strings, strings
\* of another shape, 3-part strings whose first part is no integer, and
\* elements that are no strings
GoodItemStrings ==
    {Str(<<"1",":","a",":","t","r","u","e">>), Str(<<"-","2",":","b",":","F","a","l","s","e">>), Str(<<" ","7"," ",":","T",":","T","R","U","E">>), Str(<<"+","1","_","0",":",":","y","e","s">>)}
OddShapeStrings == {Str(<<"b","a","d",":","i","t","e","m">>), Str(<<"1",":","a",":","b",":","t","r","u","e">>), Str(<<>>)}
BadIdStrings == {Str(<<"x",":","T","a","s","k",":","t","r","u","e">>), Str(<<":",":">>)}
NonStrings == {Num(5), Null, Dict([k |-> Num(1)]), List(<<>>)}
FlatItemPool == GoodItemStrings \cup OddShapeStrings \cup BadIdStrings \cup NonStrings

FlatKeys == {"message", "timestamp", "user_id", "user_name", "user_email",
             "metadata_version", "metadata_encoding", "items"}

FlatBase(items) ==
    [message |-> Str(<<"h","i">>), timestamp |-> Str(<<"t","1">>), user_id |-> Num(5),
     user_name |-> Str(<<"A","n","n">>), user_email |-> Str(<<"a","@","x">>),
     metadata_version |-> Str(<<"1",".","0">>), metadata_encoding |-> Str(<<"u","t","f","8">>),
     items |-> items]

Restrict(f, K) == [k \in K |-> f[k]]

FlatOddities ==
    {SetItem(FlatBase(List(<<Str(<<"1",":","a",":","t","r","u","e">>)>>)), "items", Str(<<"1",":","a",":","t","r","u","e">>)),
     SetItem(FlatBase(List(<<Str(<<"1",":","a",":","t","r","u","e">>)>>)), "items", Null),
     SetItem(FlatBase(List(<<Str(<<"1",":","a",":","t","r","u","e">>)>>)), "items", Dict([k |-> Str(<<"1",":","a",":","t","r","u","e">>)])),
     SetItem(FlatBase(List(<<Str(<<"1",":","a",":","t","r","u","e">>)>>)), "user_id", List(<<Num(1)>>)),
     SetItem(FlatBase(List(<<>>)), "message", Dict([text |-> Str(<<"h","i">>)])),
     SetItem(FlatBase(List(<<>>)), "metadata_version", Null),
     SetItem(FlatBase(List(<<>>)), "format", Str(<<"f","l","a","t","t","e","n","e","d">>)),
     SetItem(FlatBase(List(<<>>)), "user", Dict([id |-> Num(1)]))}

\* The flattened documents (data-2.json)
FlatInputs ==
    {Dict(FlatBase(List(l))) : l \in SeqsUpTo(FlatItemPool, MaxItems)}
    \cup {Dict(Restrict(FlatBase(List(<<Str(<<"-","2",":","b",":","F","a","l","s","e">>)>>)), K)) : K \in SUBSET FlatKeys}
    \cup {Dict(f) : f \in FlatOddities}

NestedItem(id, title, active) ==
    Dict([id |-> Num(id), title |-> Str(title), active |-> Bool(active)])

NestedItemPool ==
    {NestedItem(1, <<"a">>, TRUE), NestedItem(-2, <<"a",":","b">>, FALSE), Str(<<"1",":","a",":","t","r","u","e">>)}

NestedMetadata(format) ==
    Dict([version |-> Str(<<"1",".","0">>), format |-> format, encoding |-> Str(<<"u","t","f","8">>)])

\* A metadata value: a mapping with any format value or none, or no mapping
MetadataValues ==
    {NestedMetadata(Str(<<"n","e","s","t","e","d">>)), NestedMetadata(Str(<<"u","n","i","f","i","e","d">>)),
     NestedMetadata(Null), NestedMetadata(Dict([name |-> Str(<<"n","e","s","t","e","d">>)])),
     Dict([version |-> Str(<<"1",".","0">>)]), Dict(EmptyDict),
     Null, Str(<<"n","e","s","t","e","d">>), Num(1), List(<<Str(<<"f","o","r","m","a","t">>)>>),
     List(<<Dict([format |-> Str(<<"n","e","s","t","e","d">>)])>>)}

UserValues == {Dict([id |-> Num(5), name |-> Str(<<"A","n","n">>), email |-> Str(<<"a","@","x">>)]),
               Str(<<"A","n","n">>)}

NestedBase(user, items) ==
    [message |-> Str(<<"h","i">>), timestamp |-> Str(<<"t","1">>), user |-> user, items |-> items]

\* The nested documents (data-1.json): with and without a metadata key
NestedInputs ==
    LET bases == {NestedBase(u, List(l)) :
                    u \in UserValues, l \in SeqsUpTo(NestedItemPool, MaxItems)}
        short == {NestedBase(u, List(<<>>)) : u \in UserValues}
    IN {Dict(b) : b \in bases}
       \cup {Dict(SetItem(b, "metadata", NestedMetadata(Str(<<"n","e","s","t","e","d">>)))) :
               b \in bases}
       \cup {Dict(SetItem(b, "metadata", m)) : b \in short, m \in MetadataValues}
       \cup {Dict(EmptyDict), Dict([metadata |-> NestedMetadata(Null)])}

\* Documents of both forms, some encoding the same data and some not
PairNestedItems == {NestedItem(1, <<"a">>, TRUE), NestedItem(-2, <<"a",":","b">>, FALSE)}
PairFlatItems == {Str(<<"1",":","a",":","T","r","u","e">>), Str(<<"-","2",":","a",":","b",":","f","a","l","s","e">>)}

PairInputs ==
    {<<Dict(SetItem(NestedBase(Dict([id |-> Num(5), name |-> Str(<<"A","n","n">>),
                                      email |-> Str(<<"a","@","x">>)]), List(l)),
                    "metadata", NestedMetadata(Str(<<"n","e","s","t","e","d">>)))),
       Dict(FlatBase(List(m)))>> :
        l \in SeqsUpTo(PairNestedItems, MaxPairItems),
        m \in SeqsUpTo(PairFlatItems, MaxPairItems)}

-----------------------------------------------------------------------------
(* test_conversions: load the documents, convert, and let the caller use the
   records *)

\* load_and_display_json: data = json.load(file)
Load(doc, h) == Loads(JsonText(doc), h)

Init ==
    /\ unified_from_nested = NoCall
    /\ unified_from_flattened = NoCall
    /\ unified_again = NoCall
    /\ touched = {}
    /\ nmut = 0
    /\ \/ \E doc \in NestedInputs :
            LET n == Load(doc, EmptyHeap)
            IN heap = n.heap /\ nested_data = n.val /\ flattened_data = NotLoaded
       \/ \E doc \in FlatInputs :
            LET f == Load(doc, EmptyHeap)
            IN heap = f.heap /\ nested_data = NotLoaded /\ flattened_data = f.val
       \/ \E pair \in PairInputs :
            LET n == Load(pair[1], EmptyHeap)
                f == Load(pair[2], n.heap)
            IN heap = f.heap /\ nested_data = n.val /\ flattened_data = f.val

\* What a call leaves behind: its outcome, the structure of its argument when
\* it was called and the structure of its result when it returned
CallRecord(h, arg, r) ==
    [status |-> r.status, val |-> r.val, arg |-> Val(h, arg),
     res |-> IF r.status = "ok" THEN Val(r.heap, r.val) ELSE NotLoaded]

\* unified_from_nested = convert_nested_to_unified(nested_data)
ConvertNested ==
    /\ nested_data # NotLoaded
    /\ unified_from_nested = NoCall
    /\ LET r == convert_nested_to_unified(heap, nested_data)
       IN /\ heap' = r.heap
          /\ unified_from_nested' = CallRecord(heap, nested_data, r)
    /\ UNCHANGED <<nested_data, flattened_data, unified_from_flattened,
                   unified_again, touched, nmut>>

\* A second call, on the record the first one returned
ConvertNestedAgain ==
    /\ unified_from_nested # NoCall
    /\ unified_again = NoCall
    /\ LET r == convert_nested_to_unified(heap, unified_from_nested.val)
       IN /\ heap' = r.heap
          /\ unified_again' = CallRecord(heap, unified_from_nested.val, r)
    /\ UNCHANGED <<nested_data, flattened_data, unified_from_nested,
                   unified_from_flattened, touched, nmut>>

\* unified_from_flattened = convert_flattened_to_unified(flattened_data)
ConvertFlattened ==
    /\ flattened_data # NotLoaded
    /\ unified_from_flattened = NoCall
    /\ LET r == convert_flattened_to_unified(heap, flattened_data)
       IN /\ heap' = r.heap
          /\ unified_from_flattened' = CallRecord(heap, flattened_data, r)
    /\ UNCHANGED <<nested_data, flattened_data, unified_from_nested,
                   unified_again, touched, nmut>>

\* The records the caller holds, by the name of the variable
Held ==
    [nested_data |-> nested_data,
     flattened_data |-> flattened_data,
     unified_from_nested |->
        IF unified_from_nested.status = "ok" THEN unified_from_nested.val ELSE NotLoaded,
     unified_from_flattened |->
        IF unified_from_flattened.status = "ok" THEN unified_from_flattened.val ELSE NotLoaded,
     unified_again |->
        IF unified_again.status = "ok" THEN unified_again.val ELSE NotLoaded]

\* A caller's mutation of a container: d['mutated'] = 'm', or l.append('m')
Mutated(obj) ==
    IF obj.t = "dict" THEN Dict(SetItem(obj.v, "mutated", Str(<<"m">>)))
    ELSE List(Append(obj.v, Str(<<"m">>)))

\* The caller mutates every container it reaches from one of the records it
\* holds
Mutate ==
    /\ nmut < MaxMutations
    /\ \E name \in DOMAIN Held :
         /\ Held[name] # NotLoaded
         /\ heap' = [a \in DOMAIN heap |->
                        IF a \in Reach(heap, Held[name]) THEN Mutated(heap[a])
                        ELSE heap[a]]
         /\ touched' = touched \cup {name}
    /\ nmut' = nmut + 1
    /\ UNCHANGED <<nested_data, flattened_data, unified_from_nested,
                   unified_from_flattened, unified_again>>

Next == ConvertNested \/ ConvertNestedAgain \/ ConvertFlattened \/ Mutate

Spec == Init /\ [][Next]_vars

-----------------------------------------------------------------------------
(* Vocabulary of the properties *)

Unified == Str(<<"u","n","i","f","i","e","d">>)
Colon == ":"

Called(c) == c.status # "none"
Returned(c) == c.status = "ok"

\* The record has a key `key` whose value is a mapping
HasMapping(rec, key) == key \in DOMAIN rec.v /\ rec.v[key].t = "dict"

\* The value of an input field, or the default when the key is absent
FieldOr(rec, key, default) ==
    IF key \in DOMAIN rec.v THEN rec.v[key] ELSE default

\* The elements of the input's items when it is a sequence, else none
ItemsOf(rec) ==
    IF "items" \in DOMAIN rec.v /\ rec.v["items"].t = "list"
    THEN rec.v["items"].v ELSE <<>>

IsString(e) == e.t = "str"
IsThreePart(e) == IsString(e) /\ Len(Split(e.v, Colon)) = 3
HasBadId(e) == IsThreePart(e) /\ ~IsPyInt(Split(e.v, Colon)[1])
AllStrings(elems) == \A i \in DOMAIN elems : IsString(elems[i])

\* The item a 3-part string stands for
ItemOf(e) ==
    LET p == Split(e.v, Colon)
    IN Dict([id |-> Num(PyInt(p[1])), title |-> Str(p[2]),
             active |-> Bool(Lower(p[3]) = <<"t","r","u","e">>)])

-----------------------------------------------------------------------------
(* Properties of the converters *)

\* C2: whenever a converter returns a record, the record's metadata.format is
\* "unified": for convert_nested_to_unified when the input's metadata is a
\* mapping, whatever its format was or if it had none; for
\* convert_flattened_to_unified always.
C2_FormatIsUnified ==
    /\ \A c \in {unified_from_nested, unified_again} :
         (Returned(c) /\ HasMapping(c.arg, "metadata"))
            => /\ HasMapping(c.res, "metadata")
               /\ "format" \in DOMAIN c.res.v["metadata"].v
               /\ c.res.v["metadata"].v["format"] = Unified
    /\ Returned(unified_from_flattened)
         => /\ HasMapping(unified_from_flattened.res, "metadata")
            /\ unified_from_flattened.res.v["metadata"].v["format"] = Unified

\* Both converters returned; the nested input's format was "nested" and the
\* flattened input carried a format key of its own or none.
C2_Witness ==
    /\ Returned(unified_from_nested)
    /\ Returned(unified_from_flattened)
    /\ HasMapping(unified_from_nested.arg, "metadata")
    /\ unified_from_nested.arg.v["metadata"].v["format"] = Str(<<"n","e","s","t","e","d">>)

\* The record the flattened converter is to return for input rec
ExpectedFlat(rec) ==
    Dict([message |-> FieldOr(rec, "message", Str(<<>>)),
          timestamp |-> FieldOr(rec, "timestamp", Str(<<>>)),
          user |-> Dict([id |-> FieldOr(rec, "user_id", Null),
                         name |-> FieldOr(rec, "user_name", Str(<<>>)),
                         email |-> FieldOr(rec, "user_email", Str(<<>>))]),
          metadata |-> Dict([version |-> FieldOr(rec, "metadata_version", Str(<<>>)),
                             format |-> Unified,
                             encoding |-> FieldOr(rec, "metadata_encoding", Str(<<>>))]),
          items |-> List([i \in DOMAIN ItemsOf(rec) |-> ItemOf(ItemsOf(rec)[i])])])

AllGoodItems(rec) ==
    /\ "items" \in DOMAIN rec.v /\ rec.v["items"].t = "list"
    /\ \A i \in DOMAIN ItemsOf(rec) :
         IsThreePart(ItemsOf(rec)[i]) /\ ~HasBadId(ItemsOf(rec)[i])

\* C3: for a flattened input whose items are all 3-part strings with an integer
\* first part, the converter returns exactly the record of the five keys
\* message, timestamp, user, metadata, items, with the i-th item the conversion
\* of the i-th item string.
C3_FlattenedReconstruction ==
    (Called(unified_from_flattened) /\ AllGoodItems(unified_from_flattened.arg))
       => /\ Returned(unified_from_flattened)
          /\ unified_from_flattened.res = ExpectedFlat(unified_from_flattened.arg)

\* Two well-formed items, the second one active in upper case, were converted.
C3_Witness ==
    /\ Returned(unified_from_flattened)
    /\ AllGoodItems(unified_from_flattened.arg)
    /\ Len(ItemsOf(unified_from_flattened.arg)) = 2
    /\ ItemsOf(unified_from_flattened.arg)[1] = Str(<<"-","2",":","b",":","F","a","l","s","e">>)
    /\ ItemsOf(unified_from_flattened.arg)[2] = Str(<<" ","7"," ",":","T",":","T","R","U","E">>)

\* The conversions of the 3-part strings among elems, in their order
RECURSIVE KeptItems(_)
KeptItems(elems) ==
    IF elems = <<>> THEN <<>>
    ELSE IF IsThreePart(Head(elems))
         THEN <<ItemOf(Head(elems))>> \o KeptItems(Tail(elems))
         ELSE KeptItems(Tail(elems))

\* C4: item strings that do not split into exactly 3 parts are dropped, without
\* an error and without a placeholder: when the items are strings none of which
\* has 3 parts and a non-integer first part, the converter returns, and the
\* output items are the conversions of the 3-part strings in input order.
C4_MalformedDropped ==
    LET c == unified_from_flattened IN
    (Called(c) /\ AllStrings(ItemsOf(c.arg))
       /\ \A i \in DOMAIN ItemsOf(c.arg) : ~HasBadId(ItemsOf(c.arg)[i]))
       => /\ Returned(c)
          /\ c.res.v["items"] = List(KeptItems(ItemsOf(c.arg)))
          /\ Len(c.res.v["items"].v)
               = Cardinality({i \in DOMAIN ItemsOf(c.arg) : IsThreePart(ItemsOf(c.arg)[i])})

\* A 4-part string before a well-formed one: one item came out.
C4_Witness ==
    /\ Returned(unified_from_flattened)
    /\ Len(ItemsOf(unified_from_flattened.arg)) = 2
    /\ ItemsOf(unified_from_flattened.arg)[1] = Str(<<"1",":","a",":","b",":","t","r","u","e">>)
    /\ IsThreePart(ItemsOf(unified_from_flattened.arg)[2])
    /\ Len(unified_from_flattened.res.v["items"].v) = 1

\* C5: when the items are strings and one of them has 3 parts and a first part
\* that is no integer, the call is left by the ValueError of int() and returns
\* no record, whatever the other strings are.
C5_BadIdRaises ==
    LET c == unified_from_flattened IN
    (Called(c) /\ AllStrings(ItemsOf(c.arg))
       /\ \E i \in DOMAIN ItemsOf(c.arg) : HasBadId(ItemsOf(c.arg)[i]))
       => /\ c.status = "ValueError"
          /\ c.val = NotLoaded
          /\ c.res = NotLoaded

\* A well-formed item first, then one whose id is no integer: ValueError.
C5_Witness ==
    /\ unified_from_flattened.status = "ValueError"
    /\ Len(ItemsOf(unified_from_flattened.arg)) = 2
    /\ ~HasBadId(ItemsOf(unified_from_flattened.arg)[1])
    /\ IsThreePart(ItemsOf(unified_from_flattened.arg)[1])
    /\ HasBadId(ItemsOf(unified_from_flattened.arg)[2])

ScalarDefaults ==
    [message |-> Str(<<>>), timestamp |-> Str(<<>>), user_id |-> Null,
     user_name |-> Str(<<>>), user_email |-> Str(<<>>),
     metadata_version |-> Str(<<>>), metadata_encoding |-> Str(<<>>)]

\* Where the flattened key ends up in the output record
OutputField(res, key) ==
    CASE key = "message" -> res.v["message"]
      [] key = "timestamp" -> res.v["timestamp"]
      [] key = "user_id" -> res.v["user"].v["id"]
      [] key = "user_name" -> res.v["user"].v["name"]
      [] key = "user_email" -> res.v["user"].v["email"]
      [] key = "metadata_version" -> res.v["metadata"].v["version"]
      [] key = "metadata_encoding" -> res.v["metadata"].v["encoding"]

EmptyConverted ==
    Dict([message |-> Str(<<>>), timestamp |-> Str(<<>>),
          user |-> Dict([id |-> Null, name |-> Str(<<>>), email |-> Str(<<>>)]),
          metadata |-> Dict([version |-> Str(<<>>), format |-> Unified,
                             encoding |-> Str(<<>>)]),
          items |-> List(<<>>)])

\* C6: every key of the flattened input is optional.  An absent scalar key
\* yields "" (null for user.id); absent items, or items that are no sequence,
\* yield an empty sequence and the call returns; the empty record converts to
\* the record of the defaults.
C6_Defaults ==
    LET c == unified_from_flattened IN
    Called(c) =>
       /\ ("items" \notin DOMAIN c.arg.v \/ c.arg.v["items"].t # "list")
             => Returned(c) /\ c.res.v["items"] = List(<<>>)
       /\ Returned(c) =>
             \A key \in DOMAIN ScalarDefaults :
                key \notin DOMAIN c.arg.v => OutputField(c.res, key) = ScalarDefaults[key]
       /\ c.arg = Dict(EmptyDict) => c.res = EmptyConverted

\* The empty record was converted.
C6_Witness ==
    /\ Returned(unified_from_flattened)
    /\ unified_from_flattened.arg = Dict(EmptyDict)

\* The record without the format field of its metadata mapping
WithoutFormat(rec) ==
    IF HasMapping(rec, "metadata")
    THEN LET m == rec.v["metadata"].v
         IN Dict([rec.v EXCEPT !["metadata"] =
                    Dict([k \in DOMAIN m \ {"format"} |-> m[k]])])
    ELSE rec

\* C7: for a nested input without a metadata key, or whose metadata is no
\* mapping, the converter returns a record structurally equal to the input (no
\* metadata key created, no format injected); when metadata is a mapping the
\* output differs from the input in metadata.format at most.
C7_NestedFrame ==
    \A c \in {unified_from_nested, unified_again} :
       Called(c) =>
          /\ Returned(c)
          /\ ~HasMapping(c.arg, "metadata") => c.res = c.arg
          /\ HasMapping(c.arg, "metadata")
                => /\ WithoutFormat(c.res) = WithoutFormat(c.arg)
                   /\ DOMAIN c.res.v["metadata"].v
                        = DOMAIN c.arg.v["metadata"].v \cup {"format"}

\* A record whose metadata is a sequence was converted.
C7_Witness ==
    /\ Returned(unified_from_nested)
    /\ "metadata" \in DOMAIN unified_from_nested.arg.v
    /\ unified_from_nested.arg.v["metadata"].t = "list"
    /\ unified_from_nested.res = unified_from_nested.arg

\* The texts that stand for a boolean in an item string
ActiveTexts(b) == IF b THEN {<<"t","r","u","e">>, <<"T","r","u","e">>} ELSE {<<"f","a","l","s","e">>, <<"F","a","l","s","e">>}

\* The item strings "id:title:active" of a nested item
ItemTexts(item) ==
    {Str(IntToStr(item.v["id"].v) \o <<Colon>> \o item.v["title"].v \o <<Colon>> \o a) :
        a \in ActiveTexts(item.v["active"].v)}

IsNestedItem(item) ==
    /\ item.t = "dict"
    /\ DOMAIN item.v = {"id", "title", "active"}
    /\ item.v["id"].t = "int" /\ item.v["title"].t = "str" /\ item.v["active"].t = "bool"

\* The nested record n and the flattened record f encode the same data
Encodes(n, f) ==
    /\ DOMAIN n.v = {"message", "timestamp", "user", "metadata", "items"}
    /\ DOMAIN f.v = FlatKeys
    /\ HasMapping(n, "user") /\ DOMAIN n.v["user"].v = {"id", "name", "email"}
    /\ HasMapping(n, "metadata")
    /\ DOMAIN n.v["metadata"].v = {"version", "format", "encoding"}
    /\ f.v["message"] = n.v["message"]
    /\ f.v["timestamp"] = n.v["timestamp"]
    /\ f.v["user_id"] = n.v["user"].v["id"]
    /\ f.v["user_name"] = n.v["user"].v["name"]
    /\ f.v["user_email"] = n.v["user"].v["email"]
    /\ f.v["metadata_version"] = n.v["metadata"].v["version"]
    /\ f.v["metadata_encoding"] = n.v["metadata"].v["encoding"]
    /\ n.v["items"].t = "list" /\ f.v["items"].t = "list"
    /\ Len(n.v["items"].v) = Len(f.v["items"].v)
    /\ \A i \in DOMAIN n.v["items"].v :
          /\ IsNestedItem(n.v["items"].v[i])
          /\ f.v["items"].v[i] \in ItemTexts(n.v["items"].v[i])

NoColonInTitles(n) ==
    \A i \in DOMAIN n.v["items"].v :
       \A j \in DOMAIN n.v["items"].v[i].v["title"].v :
          n.v["items"].v[i].v["title"].v[j] # Colon

\* C8 as stated: for a nested and a flattened record that encode the same
\* data, the two converters return structurally equal records.
C8_CrossFormatAsStated ==
    (Returned(unified_from_nested) /\ Called(unified_from_flattened)
       /\ Encodes(unified_from_nested.arg, unified_from_flattened.arg))
       => /\ Returned(unified_from_flattened)
          /\ unified_from_flattened.res = unified_from_nested.res

\* C8, amended: for a nested and a flattened record that encode the same data
\* and in which no item title contains ':', the two converters return
\* structurally equal records.
C8_CrossFormat ==
    (Returned(unified_from_nested) /\ Called(unified_from_flattened)
       /\ Encodes(unified_from_nested.arg, unified_from_flattened.arg)
       /\ NoColonInTitles(unified_from_nested.arg))
       => /\ Returned(unified_from_flattened)
          /\ unified_from_flattened.res = unified_from_nested.res

\* Both converters ran on records that encode the same two items.
C8_Witness ==
    /\ Returned(unified_from_nested)
    /\ Returned(unified_from_flattened)
    /\ Encodes(unified_from_nested.arg, unified_from_flattened.arg)
    /\ NoColonInTitles(unified_from_nested.arg)
    /\ Len(unified_from_nested.arg.v["items"].v) = 2

\* C9: convert_nested_to_unified is idempotent: converting the record a first
\* call returned gives a record structurally equal to it.
C9_Idempotent ==
    (Returned(unified_from_nested) /\ Called(unified_again)
       /\ unified_again.arg = unified_from_nested.res)
       => /\ Returned(unified_again)
          /\ unified_again.res = unified_from_nested.res

\* The second call ran on the first one's result, which the first call had
\* changed.
C9_Witness ==
    /\ Returned(unified_from_nested)
    /\ Returned(unified_again)
    /\ unified_again.arg = unified_from_nested.res
    /\ unified_from_nested.res # unified_from_nested.arg

\* The call c, of input `input` held as `inName` and output held as `outName`,
\* left input and output independent: they share no container, and each has
\* the structure it had at the call unless the caller mutated through it.
Independent(c, input, inName, outName) ==
    /\ Called(c) /\ inName \notin touched => Val(heap, input) = c.arg
    /\ Returned(c) =>
          /\ Reach(heap, input) \cap Reach(heap, c.val) = {}
          /\ outName \notin touched => Val(heap, c.val) = c.res

\* The nested converter never mutates its input, and its input and its output
\* share no container.
NestedIndependent ==
    /\ Independent(unified_from_nested, nested_data,
                   "nested_data", "unified_from_nested")
    /\ Called(unified_again)
          => Independent(unified_again, unified_from_nested.val,
                         "unified_from_nested", "unified_again")

\* C1: neither converter mutates its input, and no container reachable from
\* the returned record is a container reachable from the input: mutations of
\* the output leave the input unchanged, and mutations of the input leave the
\* output unchanged.
C1_Independent ==
    /\ NestedIndependent
    /\ Independent(unified_from_flattened, flattened_data,
                   "flattened_data", "unified_from_flattened")

\* C10: the flattened converter splits only the elements of items that are
\* strings: whenever items holds no 3-part string with a non-integer first
\* part, the call returns a record, also when items holds elements that are
\* no strings.
C10_NonStringsTolerated ==
    LET c == unified_from_flattened IN
    (Called(c) /\ \A i \in DOMAIN ItemsOf(c.arg) : ~HasBadId(ItemsOf(c.arg)[i]))
       => Returned(c)

====
